---- MODULE Spec2Model ----
(***************************************************************************)
(* Model of the defect-inflow predictor, src/defect-inflow-predictor/src/  *)
(* cli.py: derive_measures, ewma, linreg_forecast, forecast_next,          *)
(* indicators, resource_plan and the statement order of main().            *)
(*                                                                         *)
(* Numbers.  Counts are integers.  Every float of the program is modelled  *)
(* exactly: a forecast is a rational <<num, den>> with den > 0, NaN is     *)
(* <<0, 0>>, and a value rounded to one decimal is an integer number of    *)
(* tenths.  Floating-point rounding error is not modelled.                 *)
(***************************************************************************)
EXTENDS Integers, Sequences, FiniteSets, TLC

\* pc            the statement of main() about to run, "done" or "aborted"
\* df            the rows read from the CSV
\* cfg           the loaded configuration
\* args_horizon  --horizon; 0 stands for None (both are falsy at line 126)
\* horizon       the horizon passed to forecast_next
\* dfd, dfi      the derived table; the two columns indicators() adds to it
\* fc            forecast_next's result and the branch it took
\* plan          resource_plan's result
\* files         the artifacts written under outdir
\* diag          the messages forecast_next printed
\* err           the uncaught exception and the statement that raised it
VARIABLES pc, df, cfg, args_horizon, horizon, dfd, dfi, fc, plan, files, diag, err

vars == <<pc, df, cfg, args_horizon, horizon, dfd, dfi, fc, plan, files, diag, err>>

(***************************************************************************)
(* Bounds of the model.                                                    *)
(***************************************************************************)
\* longest input series (rows of the CSV)
MaxLen == 3
\* largest rolling window (N and K of the health thresholds)
MaxWin == 2
\* largest forecast horizon; above the auto-switch threshold
MaxHorizon == 5
\* largest increase of one severity count, in tenths of a defect
MaxDelta == 2

Sev == {"critical", "high", "medium", "low"}

\* floor and ceiling of n/d for d > 0 (Integers' \div rounds down)
FloorDiv(n, d) == n \div d
CeilDiv(n, d) == 0 - ((0 - n) \div d)

\* all sequences over S of length 0..n
SeqsUpTo(S, n) == UNION {[1..k -> S] : k \in 0..n}

(***************************************************************************)
(* pandas helpers.                                                         *)
(***************************************************************************)
\* DataFrame.tail(n) for n >= 0: the last n rows, all of them if fewer
Tail_(s, n) ==
    IF n >= Len(s) THEN s ELSE SubSeq(s, Len(s) - n + 1, Len(s))

\* DataFrame.iloc[:k]
Head_(s, k) == SubSeq(s, 1, IF k < Len(s) THEN k ELSE Len(s))

RECURSIVE SumSeq(_)
SumSeq(s) == IF s = <<>> THEN 0 ELSE s[1] + SumSeq(Tail(s))

Column(s, f) == [j \in 1..Len(s) |-> s[j][f]]

(***************************************************************************)
(* derive_measures                                                         *)
(***************************************************************************)
DeriveRow(r, w) ==
    [defects_inflow_total      |-> r.defects_inflow_total,
     defects_outflow_total     |-> r.defects_outflow_total,
     severity_critical_in      |-> r.severity_critical_in,
     severity_high_in          |-> r.severity_high_in,
     severity_medium_in        |-> r.severity_medium_in,
     severity_low_in           |-> r.severity_low_in,
     avg_resolution_time_hours |-> r.avg_resolution_time_hours,
     backlog_total             |-> r.backlog_total,
     net_flow                  |-> r.defects_inflow_total - r.defects_outflow_total,
     inflow_rate               |-> r.defects_inflow_total,
     outflow_rate              |-> r.defects_outflow_total,
     severity_weighted_inflow  |-> w["critical"] * r.severity_critical_in
                                   + w["high"] * r.severity_high_in
                                   + w["medium"] * r.severity_medium_in
                                   + w["low"] * r.severity_low_in,
     severe_inflow             |-> r.severity_critical_in + r.severity_high_in,
     mttr_hours                |-> r.avg_resolution_time_hours]

derive_measures(d, c) == [j \in 1..Len(d) |-> DeriveRow(d[j], c.severity_weights)]

\* cfg["severity_weights"] and its four keys must exist (KeyError otherwise)
DeriveFails(c) ==
    \/ "severity_weights" \notin c.keys
    \/ ~(Sev \subseteq DOMAIN c.severity_weights)

(***************************************************************************)
(* indicators: week i (1-based here, i-1 in the source) is classified on   *)
(* wdf = df.iloc[:i]                                                       *)
(***************************************************************************)
\* mutant: every week is classified on the whole frame
WindowOf_WholeFrame(d, i) == d

WindowOf(d, i) == Head_(d, i)

\* mutant: >= for > in the comparison of inflow with outflow
InflowGtOutflow_Geq(d, th, i) ==
    LET N == th.inflow_gt_outflow_consecutive_weeks
        w == Tail_(WindowOf(d, i), N)
    IN  /\ i >= N
        /\ \A j \in 1..Len(w) : w[j].defects_inflow_total >= w[j].defects_outflow_total

InflowGtOutflow(d, th, i) ==
    LET N == th.inflow_gt_outflow_consecutive_weeks
        w == Tail_(WindowOf(d, i), N)
    IN  /\ i >= N
        /\ \A j \in 1..Len(w) : w[j].defects_inflow_total > w[j].defects_outflow_total

BacklogHigh(d, th, i) == d[i].backlog_total > th.backlog_healthy_max

SevereSum(d, th, i) ==
    SumSeq(Column(Tail_(WindowOf(d, i), th.critical_severe_window), "severe_inflow"))

\* mutant: the spike needs a full window, as the consecutive-inflow flag does
SevereSpike_FullWindow(d, th, i) ==
    i >= th.critical_severe_window /\ SevereSum(d, th, i) >= th.critical_severe_min

SevereSpike(d, th, i) == SevereSum(d, th, i) >= th.critical_severe_min

\* the flags list, in the order the code appends
Flags(d, th, i) ==
    (IF InflowGtOutflow(d, th, i) THEN <<"inflow>outflow">> ELSE <<>>)
    \o (IF BacklogHigh(d, th, i) THEN <<"backlog_high">> ELSE <<>>)
    \o (IF SevereSpike(d, th, i) THEN <<"severe_spike">> ELSE <<>>)

In(x, s) == \E j \in 1..Len(s) : s[j] = x

\* mutant: or for and between the two lesser flags
IsRed_Or(flags) ==
    \/ In("severe_spike", flags)
    \/ (In("inflow>outflow", flags) \/ In("backlog_high", flags))

IsRed(flags) ==
    \/ In("severe_spike", flags)
    \/ (In("inflow>outflow", flags) /\ In("backlog_high", flags))

Status(d, th, i) ==
    LET flags == Flags(d, th, i)
    IN  IF IsRed(flags) THEN "red"
        ELSE IF flags # <<>> THEN "yellow"
        ELSE IF d[i].defects_inflow_total <= th.healthy_max_per_deployment
             THEN "green"
             ELSE "yellow"

\* the two columns indicators() adds, one entry per week
indicators(d, c) ==
    [i \in 1..Len(d) |->
        [problem_flags |-> Flags(d, c.health_thresholds, i),
         health_status |-> Status(d, c.health_thresholds, i)]]

IndicatorsFails(c) == "health_thresholds" \notin c.keys

(***************************************************************************)
(* Exact arithmetic on the program's floats: <<num, den>>, den > 0;        *)
(* NaN is <<0, 0>>.                                                        *)
(***************************************************************************)
NaN == <<0, 0>>
IsNaN(x) == x[2] = 0
Rat(n) == <<n, 1>>
Norm(n, d) == IF d < 0 THEN <<0 - n, 0 - d>> ELSE <<n, d>>
RatMul(x, y) == IF IsNaN(x) \/ IsNaN(y) THEN NaN ELSE <<x[1] * y[1], x[2] * y[2]>>
RatEq(x, y) == ~IsNaN(x) /\ ~IsNaN(y) /\ x[1] * y[2] = y[1] * x[2]
RatGeqZero(x) == ~IsNaN(x) /\ x[1] >= 0

\* max(0.0, x): Python keeps the first argument unless x > 0.0, so NaN gives 0.0
Max0(x) == IF ~IsNaN(x) /\ x[1] > 0 THEN x ELSE Rat(0)

\* round(n/d) to the nearest integer, ties to even (d > 0)
RoundHalfEven(n, d) ==
    LET q == FloorDiv(n, d)
        r == n - q * d
    IN  IF 2 * r < d THEN q
        ELSE IF 2 * r > d THEN q + 1
        ELSE IF q % 2 = 0 THEN q ELSE q + 1

\* round(x, 1) as a number of tenths; None for NaN is never needed: the caller clamps
RoundTenths(x) == RoundHalfEven(10 * x[1], x[2])

(***************************************************************************)
(* ewma: alpha is the rational <<p, q>>, q > 0                             *)
(***************************************************************************)
EwmaStep(last, alpha, f) ==
    <<alpha[1] * last * f[2] + (alpha[2] - alpha[1]) * f[1], alpha[2] * f[2]>>

RECURSIVE EwmaLoop(_, _, _, _)
EwmaLoop(last, alpha, f, k) ==
    IF k <= 0 THEN f ELSE EwmaLoop(last, alpha, EwmaStep(last, alpha, f), k - 1)

\* mutant: the recurrence starts from the first observation
EwmaInit_First(series) == Rat(series[1])

EwmaInit(series) == Rat(series[Len(series)])

\* defined for a non-empty series; series.iloc[-1] raises IndexError otherwise
ewma(series, alpha, h) ==
    EwmaLoop(series[Len(series)], alpha, EwmaInit(series), h)

(***************************************************************************)
(* linreg_forecast: least squares of y over x = 0..n-1, evaluated at       *)
(* n-1+horizon.  Defined for n >= 2 and horizon >= 1.                      *)
(***************************************************************************)
RECURSIVE SumTo(_, _, _)
\* sum of F[j] for j in lo..hi
SumTo(F, lo, hi) == IF lo > hi THEN 0 ELSE F[lo] + SumTo(F, lo + 1, hi)

linreg_forecast(y, h) ==
    LET n   == Len(y)
        Sx  == SumTo([j \in 1..n |-> j - 1], 1, n)
        Sxx == SumTo([j \in 1..n |-> (j - 1) * (j - 1)], 1, n)
        Sy  == SumTo(y, 1, n)
        Sxy == SumTo([j \in 1..n |-> (j - 1) * y[j]], 1, n)
        D   == n * Sxx - Sx * Sx
        A   == n * Sxy - Sx * Sy
    IN  <<n * A * (n - 1 + h) + Sy * D - A * Sx, n * D>>

(***************************************************************************)
(* forecast_next                                                           *)
(***************************************************************************)
\* horizon above which ewma is replaced by linreg
AutoSwitchHorizon == 3
\* rows averaged for the severity mix
MixWindow == 10

\* cfg.get("forecast", {}).get("method", "ewma")
ConfiguredMethod(c) ==
    IF "forecast" \notin c.keys \/ c.forecast.method = "<unset>"
    THEN "ewma"
    ELSE c.forecast.method

\* mutant: the switch already happens at the threshold
AutoSwitch_Geq(c, h) == h >= AutoSwitchHorizon /\ ConfiguredMethod(c) = "ewma"

AutoSwitch(c, h) == h > AutoSwitchHorizon /\ ConfiguredMethod(c) = "ewma"

\* the local variable method when the branch at line 49 is taken
SelectedMethod(c, h) == IF AutoSwitch(c, h) THEN "linreg" ELSE ConfiguredMethod(c)

UsesEwma(c, h) == SelectedMethod(c, h) = "ewma"

\* the branch taken: anything but "ewma" goes to linear regression
Path(c, h) == IF UsesEwma(c, h) THEN "ewma" ELSE "linreg"

\* the exception the prediction step raises, "none" if it returns.
\* lstsq is the outcome of LAPACK on the NaN matrix polyfit builds from one point.
PredictError(d, c, h, lstsq) ==
    IF UsesEwma(c, h)
    THEN IF "forecast" \notin c.keys THEN "KeyError"
         ELSE IF Len(d) = 0 THEN "IndexError"
         ELSE "none"
    ELSE IF Len(d) = 0 THEN "TypeError"
         ELSE IF Len(d) = 1 /\ lstsq = "raises" THEN "LinAlgError"
         ELSE IF h < 1 THEN "IndexError"
         ELSE "none"

Predict(d, c, h, col) ==
    IF UsesEwma(c, h)
    THEN ewma(Column(d, col), c.forecast.ewma_alpha, h)
    ELSE IF Len(d) = 1 THEN NaN
    ELSE linreg_forecast(Column(d, col), h)

\* mean(col)/total over the last MixWindow rows, total = mean(inflow) or 1.0
Mix(d, col) ==
    LET recent == Tail_(d, MixWindow)
        m      == Len(recent)
        Sk     == SumSeq(Column(recent, col))
        Sin    == SumSeq(Column(recent, "defects_inflow_total"))
    IN  IF Sin = 0 THEN <<Sk, m>> ELSE Norm(Sk, Sin)

SevColumn(k) ==
    CASE k = "critical" -> "severity_critical_in"
      [] k = "high"     -> "severity_high_in"
      [] k = "medium"   -> "severity_medium_in"
      [] k = "low"      -> "severity_low_in"

\* max(0.0, round(mix*inflow_pred, 1)) in tenths
SevPred(d, inflow_pred, k) ==
    LET x == RatMul(Mix(d, SevColumn(k)), inflow_pred)
    IN  IF IsNaN(x) THEN 0
        ELSE IF RoundTenths(x) > 0 THEN RoundTenths(x) ELSE 0

\* mutant: the forecast is returned as predicted
Clamp_None(x) == x

Clamp(x) == Max0(x)

forecast_next(d, c, h) ==
    LET inflow_pred  == Predict(d, c, h, "defects_inflow_total")
        outflow_pred == Predict(d, c, h, "defects_outflow_total")
    IN  [path    |-> Path(c, h),
         inflow  |-> Clamp(inflow_pred),
         outflow |-> Clamp(outflow_pred),
         sev     |-> [k \in Sev |-> SevPred(d, inflow_pred, k)]]

(***************************************************************************)
(* resource_plan.  Units: forecast counts in tenths of a defect,           *)
(* hours_per_defect and the engineer capacity in tenths of an hour,        *)
(* qa_share in tenths; so total_hours below is in hundredths of an hour.   *)
(***************************************************************************)
RECURSIVE TotalHours(_, _, _)
\* the loop over sev_pred.items(), keys being the keys still to visit
TotalHours(hp, sev_pred, keys) ==
    IF keys = {} THEN 0
    ELSE LET k == CHOOSE x \in keys : TRUE
         IN  hp[k] * sev_pred[k] + TotalHours(hp, sev_pred, keys \ {k})

\* mutant: capacity divided by hours, the operands swapped
Engineers_Swapped(total_hours, cap) ==
    IF cap > 0 /\ total_hours > 0 THEN CeilDiv(10 * cap, total_hours) ELSE 0

\* int(np.ceil(total_hours / cap)) if cap > 0 else 0
Engineers(total_hours, cap) ==
    IF cap > 0 THEN CeilDiv(total_hours, 10 * cap) ELSE 0

ResourcePlanFails(c) ==
    \/ "resources" \notin c.keys
    \/ ~(Sev \subseteq DOMAIN c.resources.hours_per_defect)

resource_plan(next_inflow, sev_pred, c) ==
    LET hp          == c.resources.hours_per_defect
        total_hours == TotalHours(hp, sev_pred, DOMAIN sev_pred)
        cap         == c.resources.engineer_capacity_hours_per_week
        qa_hours    == total_hours * c.resources.qa_share
    IN  [predicted_inflow      |-> RoundTenths(next_inflow),
         estimated_total_hours |-> RoundHalfEven(total_hours, 10),
         recommended_engineers |-> Engineers(total_hours, cap),
         recommended_qa_hours  |-> RoundHalfEven(qa_hours, 100),
         hours_per_defect      |-> hp]

(***************************************************************************)
(* main: the statements of lines 126-145 in program order.  pc names the   *)
(* statement about to run.                                                 *)
(***************************************************************************)
\* mutant: each table is written as soon as it is computed
MainStmts_EagerWrites ==
    <<"horizon", "derive", "mkdir", "write_dfd", "indicators", "write_dfi",
      "forecast", "plan", "write_json", "done">>

MainStmts ==
    <<"horizon", "derive", "indicators", "forecast", "plan",
      "mkdir", "write_dfd", "write_dfi", "write_json", "done">>

Pos(stmt) == CHOOSE j \in 1..Len(MainStmts) : MainStmts[j] = stmt

After(stmt) == MainStmts[Pos(stmt) + 1]

Computations == {"derive", "indicators", "forecast", "plan"}

NoErr == [kind |-> "none", at |-> "none"]
NoFc ==
    [path |-> "none", inflow |-> Rat(0), outflow |-> Rat(0), sev |-> [k \in Sev |-> 0]]
NoPlan ==
    [predicted_inflow |-> 0, estimated_total_hours |-> 0, recommended_engineers |-> 0,
     recommended_qa_hours |-> 0, hours_per_defect |-> [k \in Sev |-> 0]]

\* an uncaught exception ends the run
Raise(kind) ==
    /\ err' = [kind |-> kind, at |-> pc]
    /\ pc' = "aborted"

\* the statement has run to completion
Completed(stmt) ==
    IF pc = "aborted" THEN Pos(stmt) < Pos(err.at) ELSE Pos(stmt) < Pos(pc)

\* horizon = args.horizon or int(cfg["forecast"]["horizon_weeks"]); None is 0 here
SetHorizon ==
    /\ pc = "horizon"
    /\ IF args_horizon # 0
       THEN horizon' = args_horizon /\ pc' = After(pc) /\ err' = err
       ELSE IF "forecast" \in cfg.keys
       THEN horizon' = cfg.forecast.horizon_weeks /\ pc' = After(pc) /\ err' = err
       ELSE horizon' = horizon /\ Raise("KeyError")
    /\ UNCHANGED <<df, cfg, args_horizon, dfd, dfi, fc, plan, files, diag>>

Derive ==
    /\ pc = "derive"
    /\ IF DeriveFails(cfg)
       THEN dfd' = dfd /\ Raise("KeyError")
       ELSE dfd' = derive_measures(df, cfg) /\ pc' = After(pc) /\ err' = err
    /\ UNCHANGED <<df, cfg, args_horizon, horizon, dfi, fc, plan, files, diag>>

Indicators ==
    /\ pc = "indicators"
    /\ IF IndicatorsFails(cfg)
       THEN dfi' = dfi /\ Raise("KeyError")
       ELSE dfi' = indicators(dfd, cfg) /\ pc' = After(pc) /\ err' = err
    /\ UNCHANGED <<df, cfg, args_horizon, horizon, dfd, fc, plan, files, diag>>

ForecastNext ==
    /\ pc = "forecast"
    /\ diag' = IF AutoSwitch(cfg, horizon) THEN Append(diag, "auto-switch") ELSE diag
    /\ \E lstsq \in {"raises", "nan"} :
         LET e == PredictError(dfd, cfg, horizon, lstsq)
         IN  IF e # "none"
             THEN /\ fc' = [fc EXCEPT !.path = Path(cfg, horizon)]
                  /\ Raise(e)
             ELSE /\ fc' = forecast_next(dfd, cfg, horizon)
                  /\ pc' = After(pc)
                  /\ err' = err
    /\ UNCHANGED <<df, cfg, args_horizon, horizon, dfd, dfi, plan, files>>

ResourcePlan ==
    /\ pc = "plan"
    /\ IF ResourcePlanFails(cfg)
       THEN plan' = plan /\ Raise("KeyError")
       ELSE plan' = resource_plan(fc.inflow, fc.sev, cfg) /\ pc' = After(pc) /\ err' = err
    /\ UNCHANGED <<df, cfg, args_horizon, horizon, dfd, dfi, fc, files, diag>>

\* outdir.mkdir(parents=True, exist_ok=True); the file system may refuse
Mkdir ==
    /\ pc = "mkdir"
    /\ \E ok \in BOOLEAN :
         IF ok THEN pc' = After(pc) /\ err' = err ELSE Raise("OSError")
    /\ UNCHANGED <<df, cfg, args_horizon, horizon, dfd, dfi, fc, plan, files, diag>>

\* one artifact write; a refused write leaves no artifact
Write(stmt, artifact) ==
    /\ pc = stmt
    /\ \E ok \in BOOLEAN :
         IF ok
         THEN files' = files \cup {artifact} /\ pc' = After(pc) /\ err' = err
         ELSE files' = files /\ Raise("OSError")
    /\ UNCHANGED <<df, cfg, args_horizon, horizon, dfd, dfi, fc, plan, diag>>

WriteDerived == Write("write_dfd", "derived_measures.csv")
WriteIndicators == Write("write_dfi", "indicators.csv")
WriteForecastPlan == Write("write_json", "forecast_and_plan.json")

(***************************************************************************)
(* Inputs.  A row of the CSV and a loaded configuration; keys are the      *)
(* top-level sections present in the YAML file.                            *)
(***************************************************************************)
Sections == {"severity_weights", "forecast", "health_thresholds", "resources"}

Row(inflow, outflow, critical, high, medium, low, backlog) ==
    [defects_inflow_total      |-> inflow,
     defects_outflow_total     |-> outflow,
     severity_critical_in      |-> critical,
     severity_high_in          |-> high,
     severity_medium_in        |-> medium,
     severity_low_in           |-> low,
     avg_resolution_time_hours |-> 24,
     backlog_total             |-> backlog]

Thresholds(N, blmax, K, smin, hmax) ==
    [inflow_gt_outflow_consecutive_weeks |-> N,
     backlog_healthy_max                 |-> blmax,
     critical_severe_window              |-> K,
     critical_severe_min                 |-> smin,
     healthy_max_per_deployment          |-> hmax]

Forecast(method, alpha, weeks) ==
    [method |-> method, ewma_alpha |-> alpha, horizon_weeks |-> weeks]

Resources(hp, cap, qa) ==
    [hours_per_defect |-> hp, engineer_capacity_hours_per_week |-> cap, qa_share |-> qa]

BaseCfg ==
    [keys              |-> Sections,
     severity_weights  |-> [k \in Sev |-> CASE k = "critical" -> 5 [] k = "high" -> 3
                                            [] k = "medium" -> 2 [] k = "low" -> 1],
     forecast          |-> Forecast("ewma", <<1, 2>>, 2),
     health_thresholds |-> Thresholds(2, 0, 2, 2, 0),
     resources         |-> Resources([k \in Sev |-> 20], 400, 2)]

Without(section) == [BaseCfg EXCEPT !.keys = Sections \ {section}]

\* the variables before any statement of main has run
Fresh ==
    /\ dfd = <<>>
    /\ dfi = <<>>
    /\ fc = NoFc
    /\ plan = NoPlan
    /\ files = {}
    /\ diag = <<>>
    /\ err = NoErr

(***************************************************************************)
(* SpecInd: indicators() on every derived series over IndRows, under every *)
(* threshold setting of IndConfigs.                                        *)
(***************************************************************************)
\* inflow above, equal to and below outflow, each with a calm week, a week with
\* one severe defect and a week with a backlog of one
IndRows ==
    {Row(ab[1], ab[2], cb[1], 0, 0, 0, cb[2]) :
        ab \in {<<1, 0>>, <<1, 1>>, <<0, 1>>}, cb \in {<<0, 0>>, <<1, 0>>, <<0, 1>>}}

IndConfigs ==
    {[BaseCfg EXCEPT !.health_thresholds = Thresholds(N, 0, K, smin, 0)] :
        N \in 1..MaxWin, K \in 1..MaxWin, smin \in 1..2}
    \cup {Without("health_thresholds")}

InitInd ==
    /\ pc = "indicators"
    /\ df \in SeqsUpTo(IndRows, MaxLen)
    /\ cfg \in IndConfigs
    /\ args_horizon = 0
    /\ horizon = cfg.forecast.horizon_weeks
    /\ dfd = derive_measures(df, cfg)
    /\ dfi = <<>>
    /\ fc = NoFc
    /\ plan = NoPlan
    /\ files = {}
    /\ diag = <<>>
    /\ err = NoErr

NextInd == Indicators

SpecInd == InitInd /\ [][NextInd]_vars

(***************************************************************************)
(* SpecFc: forecast_next() on every series over FcRows, for every horizon  *)
(* from -1 to MaxHorizon and every configuration of FcConfigs.             *)
(***************************************************************************)
\* falling, rising and negative inflow against rising and falling outflow, with two
\* severity splits,
\* one of them holding a negative count
FcRows ==
    {Row(ab[1], ab[2], s[1], s[2], s[3], s[4], 0) :
        ab \in {<<2, 0>>, <<0, 2>>, <<0 - 1, 1>>},
        s \in {<<1, 0, 1, 0>>, <<0, 0 - 1, 0, 2>>}}

\* ewma_alpha inside and outside (0, 1)
Alphas == {<<0 - 1, 2>>, <<0, 1>>, <<1, 4>>, <<1, 2>>, <<1, 1>>, <<3, 2>>}

FcConfigs(h) ==
    {[BaseCfg EXCEPT !.forecast = Forecast("ewma", a, h)] : a \in Alphas}
    \cup {[BaseCfg EXCEPT !.forecast = Forecast(m, <<1, 2>>, h)] :
            m \in {"linreg", "<unset>", "arima"}}
    \cup (IF h = 0 THEN {} ELSE {Without("forecast")})

InitFc ==
    /\ pc = "forecast"
    /\ df \in SeqsUpTo(FcRows, MaxLen)
    /\ horizon \in (0 - 1)..MaxHorizon
    /\ cfg \in FcConfigs(horizon)
    /\ args_horizon = IF "forecast" \in cfg.keys THEN 0 ELSE horizon
    /\ dfd = derive_measures(df, cfg)
    /\ dfi = indicators(dfd, cfg)
    /\ fc = NoFc
    /\ plan = NoPlan
    /\ files = {}
    /\ diag = <<>>
    /\ err = NoErr

NextFc == ForecastNext

SpecFc == InitFc /\ [][NextFc]_vars

(***************************************************************************)
(* Claims about forecast_next() and ewma(), checked under SpecFc.          *)
(***************************************************************************)
FcCalled == pc # "forecast"
FcReturned == Completed("forecast")

InflowSeries == Column(dfd, "defects_inflow_total")
OutflowSeries == Column(dfd, "defects_outflow_total")

\* the method the configuration names, "ewma" being the default of a missing key
C5_Configured ==
    IF "forecast" \in cfg.keys /\ cfg.forecast.method # "<unset>"
    THEN cfg.forecast.method ELSE "ewma"

\* C3: with an out-of-range ewma_alpha, a non-positive horizon, an empty series or
\* a linear fit over fewer than 2 points, forecast_next ends in an error and returns
\* no forecast.  (The claim also names the error kinds; this states only that some
\* error ends the call, which the claim implies.)
C3_ErrorNotForecast ==
    LET alpha == cfg.forecast.ewma_alpha
        bad_alpha   == "forecast" \in cfg.keys /\ (alpha[1] <= 0 \/ alpha[1] >= alpha[2])
        bad_horizon == horizon <= 0
        too_short   == \/ Len(dfd) = 0
                       \/ (fc.path = "linreg" /\ Len(dfd) < 2)
    IN  (FcCalled /\ (bad_alpha \/ bad_horizon \/ too_short))
            => (err.kind # "none" /\ ~FcReturned)

\* C4: the returned inflow and outflow forecasts and the four severity counts are
\* never negative.
C4_NonNegative ==
    FcReturned =>
        /\ fc.inflow[2] > 0 /\ fc.inflow[1] >= 0
        /\ fc.outflow[2] > 0 /\ fc.outflow[1] >= 0
        /\ \A k \in Sev : fc.sev[k] >= 0

\* a negative count in the series, a trend that extrapolates inflow below zero and
\* a severity product that is negative before the clamp
C4_Witness ==
    /\ FcReturned
    /\ fc.path = "linreg"
    /\ Len(dfd) >= 2
    /\ \E j \in 1..Len(dfd) : dfd[j].severity_high_in < 0
    /\ linreg_forecast(InflowSeries, horizon)[1] < 0
    /\ \E k \in Sev :
         RoundTenths(RatMul(Mix(dfd, SevColumn(k)), linreg_forecast(InflowSeries, horizon))) < 0
    /\ fc.inflow = Rat(0)

\* C5: the ewma branch is taken iff the configured method is ewma and horizon <= 3;
\* with ewma configured and horizon > 3 the linreg branch is taken, and the
\* auto-switch message is printed in exactly that case.
C5_MethodSelection ==
    FcCalled =>
        /\ (fc.path = "ewma") <=> (C5_Configured = "ewma" /\ horizon <= 3)
        /\ (C5_Configured = "ewma" /\ horizon > 3) => fc.path = "linreg"
        /\ (diag = <<"auto-switch">>) <=> (C5_Configured = "ewma" /\ horizon > 3)
        /\ diag \in {<<>>, <<"auto-switch">>}

\* ewma configured, horizon 4: linreg applied and the message printed
C5_Witness ==
    /\ FcReturned
    /\ cfg.forecast.method = "ewma"
    /\ horizon = 4
    /\ fc.path = "linreg"
    /\ diag = <<"auto-switch">>

\* C10: for a non-empty series, every alpha and every horizon >= 0, ewma() returns
\* the last value of the series; so does forecast_next on its ewma branch, up to
\* the clamp at zero.
C10_EwmaIsLast ==
    /\ (pc = "forecast" /\ Len(dfd) > 0) =>
          \A h \in 0..MaxHorizon :
              /\ RatEq(ewma(InflowSeries, cfg.forecast.ewma_alpha, h),
                       Rat(dfd[Len(dfd)].defects_inflow_total))
              /\ RatEq(ewma(OutflowSeries, cfg.forecast.ewma_alpha, h),
                       Rat(dfd[Len(dfd)].defects_outflow_total))
    /\ (FcReturned /\ fc.path = "ewma") =>
          /\ RatEq(fc.inflow, Max0(Rat(dfd[Len(dfd)].defects_inflow_total)))
          /\ RatEq(fc.outflow, Max0(Rat(dfd[Len(dfd)].defects_outflow_total)))

\* three iterations over a series whose earlier values differ from the last one
C10_Witness ==
    /\ FcReturned
    /\ fc.path = "ewma"
    /\ horizon = 3
    /\ cfg.forecast.ewma_alpha = <<1, 4>>
    /\ Len(dfd) = MaxLen
    /\ InflowSeries[1] # InflowSeries[Len(dfd)]
    /\ fc.inflow[2] = 64
    /\ fc.inflow[1] = 64 * InflowSeries[Len(dfd)]
    /\ fc.inflow[1] > 0

(***************************************************************************)
(* SpecPlan: resource_plan() on every severity forecast over SevTenths and *)
(* every resources section of PlanConfigs.  Only fc and cfg are inputs of  *)
(* resource_plan.                                                          *)
(***************************************************************************)
\* forecast counts 0.0, 0.3 and 1.0
SevTenths == {0, 3, 10}
\* hours per defect 0.0, 0.5 and 2.5
HpTenths == {0, 5, 25}
\* engineer capacity -40.0, 0.0, 1.5 and 40.0 hours per week
CapTenths == {0 - 400, 0, 15, 400}

PlanConfigs ==
    {[BaseCfg EXCEPT !.resources = Resources(hp, cap, 3)] :
        hp \in [Sev -> HpTenths], cap \in CapTenths}
    \cup {Without("resources"),
          [BaseCfg EXCEPT !.resources = Resources([k \in Sev \ {"low"} |-> 20], 400, 3)]}

InitPlan ==
    /\ pc = "plan"
    /\ df = <<>>
    /\ cfg \in PlanConfigs
    /\ args_horizon = 0
    /\ horizon = cfg.forecast.horizon_weeks
    /\ dfd = <<>>
    /\ dfi = <<>>
    /\ \E sev \in [Sev -> SevTenths] :
         fc = [path |-> "linreg", inflow |-> <<SumSeq(<<sev["critical"], sev["high"],
                                                        sev["medium"], sev["low"]>>), 10>>,
               outflow |-> Rat(0), sev |-> sev]
    /\ plan = NoPlan
    /\ files = {}
    /\ diag = <<>>
    /\ err = NoErr

NextPlan == ResourcePlan

SpecPlan == InitPlan /\ [][NextPlan]_vars

(***************************************************************************)
(* Spec: a run of main() from the loaded configuration and the CSV.        *)
(***************************************************************************)
MainRows == {Row(2, 1, 1, 0, 1, 0, 1), Row(1, 2, 0, 1, 0, 0, 0)}

MainConfigs ==
    {[BaseCfg EXCEPT !.forecast = Forecast(m, <<1, 2>>, 2)] : m \in {"ewma", "linreg"}}
    \cup {Without(section) : section \in Sections}
    \cup {[BaseCfg EXCEPT !.resources = Resources([k \in Sev \ {"low"} |-> 20], 400, 3)]}

Init ==
    /\ pc = "horizon"
    /\ df \in SeqsUpTo(MainRows, MaxLen)
    /\ cfg \in MainConfigs
    /\ args_horizon \in {0, 1, 4}
    /\ horizon = 0
    /\ Fresh

Next ==
    \/ SetHorizon
    \/ Derive
    \/ Indicators
    \/ ForecastNext
    \/ ResourcePlan
    \/ Mkdir
    \/ WriteDerived
    \/ WriteIndicators
    \/ WriteForecastPlan

Spec == Init /\ [][Next]_vars

(***************************************************************************)
(* Claims about main(), checked under Spec.                                *)
(***************************************************************************)
\* C2: when derive_measures, indicators, forecast_next or resource_plan fails, the
\* run has aborted with no artifact written; and an artifact exists only once all
\* four computations have completed.
C2_AllOrNothing ==
    /\ (err.at \in Computations) => (pc = "aborted" /\ files = {})
    /\ (files # {}) => \A c \in Computations : Completed(c)

\* the last computation fails after the other three completed: nothing is written
C2_Witness ==
    /\ err.at = "plan"
    /\ pc = "aborted"
    /\ Completed("derive") /\ Completed("indicators") /\ Completed("forecast")
    /\ Len(dfd) > 0 /\ Len(dfi) > 0
    /\ files = {}

(***************************************************************************)
(* Claims about resource_plan(), checked under SpecPlan.                   *)
(***************************************************************************)
\* C6: raising one severity count of the forecast, the others and the
\* configuration unchanged, lowers neither estimated_total_hours nor
\* recommended_engineers.
C6_Monotone ==
    Completed("plan") =>
        \A k \in Sev : \A d \in 1..MaxDelta :
            LET more == resource_plan(fc.inflow, [fc.sev EXCEPT ![k] = @ + d], cfg)
            IN  /\ more.estimated_total_hours >= plan.estimated_total_hours
                /\ more.recommended_engineers >= plan.recommended_engineers

\* a positive capacity and a count whose increase by 0.1 raises both outputs
C6_Witness ==
    /\ Completed("plan")
    /\ cfg.resources.engineer_capacity_hours_per_week > 0
    /\ plan.recommended_engineers >= 1
    /\ \E k \in Sev :
         LET more == resource_plan(fc.inflow, [fc.sev EXCEPT ![k] = @ + 1], cfg)
         IN  /\ more.estimated_total_hours > plan.estimated_total_hours
             /\ more.recommended_engineers > plan.recommended_engineers

(***************************************************************************)
(* Claims about indicators(), checked under SpecInd.                       *)
(***************************************************************************)
IndDone == Completed("indicators")
TH == cfg.health_thresholds

\* C1: a week's health_status is red if and only if severe_spike is among its
\* problem_flags, or inflow>outflow and backlog_high both are.
C1_RedIffFlags ==
    IndDone =>
        \A i \in 1..Len(dfi) :
            LET f == dfi[i].problem_flags
            IN  (dfi[i].health_status = "red")
                <=> \/ In("severe_spike", f)
                    \/ (In("inflow>outflow", f) /\ In("backlog_high", f))

\* both ways to red occur, and a week with a single non-spike flag is not red
C1_Witness ==
    /\ IndDone
    /\ \E i \in 1..Len(dfi) :
         dfi[i].health_status = "red" /\ dfi[i].problem_flags = <<"inflow>outflow", "backlog_high">>
    /\ \E i \in 1..Len(dfi) :
         dfi[i].health_status = "red" /\ dfi[i].problem_flags = <<"severe_spike">>
    /\ \E i \in 1..Len(dfi) :
         dfi[i].health_status = "yellow" /\ dfi[i].problem_flags = <<"backlog_high">>

\* C7: the classification of week i is the one indicators() gives the series cut
\* after week i, so it is the same for all series sharing rows 0..i.
C7_PrefixOnly ==
    IndDone =>
        \A i \in 1..Len(dfd) : indicators(Head_(dfd, i), cfg)[i] = dfi[i]

\* a full-length series whose last week, were it visible earlier, would matter:
\* the first week is green and the last is red
C7_Witness ==
    /\ IndDone
    /\ Len(dfi) = MaxLen
    /\ dfi[1].health_status = "green"
    /\ dfi[Len(dfi)].health_status = "red"

\* C8: inflow>outflow is raised for week i iff at least N weeks are available and
\* inflow_total > outflow_total strictly in each of the last N weeks.
C8_ConsecutiveInflow ==
    IndDone =>
        \A i \in 1..Len(dfi) :
            In("inflow>outflow", dfi[i].problem_flags)
            <=> /\ i >= TH.inflow_gt_outflow_consecutive_weeks
                /\ \A j \in (i - TH.inflow_gt_outflow_consecutive_weeks + 1)..i :
                     dfd[j].defects_inflow_total > dfd[j].defects_outflow_total

\* N = 2: not raised in week 0 although inflow > outflow there, raised in week 1,
\* and suppressed in week 2 by a week with inflow = outflow
C8_Witness ==
    /\ IndDone
    /\ TH.inflow_gt_outflow_consecutive_weeks = 2
    /\ Len(dfi) >= 3
    /\ dfd[1].defects_inflow_total > dfd[1].defects_outflow_total
    /\ ~In("inflow>outflow", dfi[1].problem_flags)
    /\ In("inflow>outflow", dfi[2].problem_flags)
    /\ dfd[3].defects_inflow_total = dfd[3].defects_outflow_total
    /\ ~In("inflow>outflow", dfi[3].problem_flags)

\* C9: severe_spike is raised for week i iff severe_inflow summed over the last K
\* weeks, or over all weeks so far when there are fewer, reaches critical_severe_min.
C9_SevereSpike ==
    IndDone =>
        \A i \in 1..Len(dfi) :
            LET lo == IF i - TH.critical_severe_window + 1 > 1
                      THEN i - TH.critical_severe_window + 1 ELSE 1
            IN  In("severe_spike", dfi[i].problem_flags)
                <=> SumTo([j \in 1..Len(dfd) |-> dfd[j].severe_inflow], lo, i)
                    >= TH.critical_severe_min

\* K = 2: raised in week 0 on a one-week prefix, and not raised in week 2 once
\* the severe week has left the window
C9_Witness ==
    /\ IndDone
    /\ TH.critical_severe_window = 2
    /\ Len(dfi) >= 3
    /\ In("severe_spike", dfi[1].problem_flags)
    /\ ~In("severe_spike", dfi[3].problem_flags)

====
